---- MODULE Spec2Model ----
(***************************************************************************)
(* Column-level lineage analysis of multi-statement SQL scripts            *)
(* (lineage_analyzer): the TableRegistry, the per-statement analyzers      *)
(* (CREATE TABLE AS / CREATE VIEW, INSERT INTO ... SELECT, WITH), the CTE  *)
(* extractor, the ScriptAnalyzer loop and the TransitiveLineageResolver.   *)
(*                                                                         *)
(* The SQL parser is a collaborator: a statement is given by what the      *)
(* classifier and the dependency extractor make of it (its kind, target,   *)
(* CTE list, FROM item, projected columns and the place where its analysis *)
(* raises, if it does).                                                    *)
(***************************************************************************)
EXTENDS Integers, Sequences, FiniteSets, TLC

VARIABLES
    tables,             \* TableRegistry.tables: normalized name -> TableDefinition
    statement_counter,  \* TableRegistry._statement_counter
    analysis_results,   \* analyze_script: analysis_results (one record per statement)
    aborted,            \* an exception left analyze_script
    hung,               \* a CTE-expansion loop never returned
    schema_provider,    \* "none" or "dict": ScriptAnalyzer.schema_provider
    last,               \* the last statement: its kind and target, how it ended, its CTEs
    pc,                 \* "script" | "trace" | "impact" | "done": position of the driver
    query,              \* the column the resolver was asked about
    stack,              \* call stack of _dfs_trace / _dfs_impact
    all_paths,          \* trace_to_source: all_paths
    impacted,           \* find_impact: impacted
    visited,            \* _dfs_impact: the shared visited set
    dependency,         \* a ColumnDependency (<<>>: none)
    data,               \* the dict to_dict made of it (<<>>: not yet)
    restored            \* the ColumnDependency from_dict made of the dict

vars == <<tables, statement_counter, analysis_results, aborted, hung,
          schema_provider, last, pc, query, stack, all_paths, impacted, visited,
          dependency, data, restored>>

scriptVars == <<tables, statement_counter, analysis_results, aborted, hung,
                schema_provider, last>>

resolverVars == <<query, stack, all_paths, impacted, visited>>

serialVars == <<dependency, data, restored>>

----------------------------------------------------------------------------
(* Bounds of the model *)

MaxStatements == 3      \* statements in a script
SmallMaxDepth == 1      \* a max_depth a caller passes to cut the search short

(* Values fixed by the program *)

DefaultMaxDepth == 100  \* trace_to_source / find_impact: max_depth=100

ConstantSentinel == "__CONSTANT__"  \* dependency_extractor.py: placeholder source table

(* Table spellings as they appear in SQL text, and their normalized form.  *)
(* "T" is an upper-case spelling of "t".                                   *)
TableNames == {"s", "t", "u", "c"}
Spellings == TableNames \cup {"T"}
ColumnNames == {"a", "b"}
Projections == {<<"a">>, <<"a", "b">>}

----------------------------------------------------------------------------
(* Generic helpers *)

Range(f) == {f[x] : x \in DOMAIN f}

Put(f, k, v) == [x \in (DOMAIN f) \cup {k} |-> IF x = k THEN v ELSE f[x]]

Drop(f, k) == [x \in (DOMAIN f) \ {k} |-> f[x]]

RECURSIVE Concat(_)
Concat(ss) == IF ss = <<>> THEN <<>> ELSE Head(ss) \o Concat(Tail(ss))

EmptyMap == [x \in {} |-> x]

----------------------------------------------------------------------------
(* models/column.py, models/column_lineage.py, models/table_definition.py *)

ColumnRef(t, c) == [table |-> t, column |-> c]

\* confidence in thousandths: ColumnLineage.confidence = 1.0 by default
FullConfidence == 1000

\* a ColumnLineage with the defaults of the dataclass for every other field
ColumnLineage(n, srcs) ==
    [name |-> n, sources |-> srcs, confidence |-> FullConfidence,
     is_aggregate |-> FALSE, is_group_by |-> FALSE]

TableDefinition(n, type, src, cols) ==
    [name |-> n, table_type |-> type, is_source_table |-> src, columns |-> cols]

\* TableDefinition.has_column: name in self.columns
has_column(def, c) == \E i \in 1..Len(def.columns) : def.columns[i].name = c

\* TableDefinition.get_column: self.columns.get(name)
get_column(def, c) ==
    def.columns[CHOOSE i \in 1..Len(def.columns) : def.columns[i].name = c]

\* ColumnLineage.add_source: append unless a source of the same qualified name is there
add_source(srcs, s) ==
    IF \E i \in 1..Len(srcs) : srcs[i] = s THEN srcs ELSE Append(srcs, s)

\* ColumnLineage.merge_from: add every source of other
RECURSIVE merge_from(_, _)
merge_from(srcs, other) ==
    IF other = <<>> THEN srcs
    ELSE merge_from(add_source(srcs, Head(other)), Tail(other))

\* ColumnLineage.merge_from: self.confidence = min(self.confidence,
\* other.confidence * 0.9)
merged_confidence_kept(confidence, other) == confidence

merged_confidence(confidence, other) ==
    IF confidence <= (other * 9) \div 10 THEN confidence ELSE (other * 9) \div 10

\* TableDefinition.add_column: merge into the column of that name (its
\* sources and confidence change, nothing else), else append
add_column(cols, lin) ==
    IF \E i \in 1..Len(cols) : cols[i].name = lin.name
    THEN [i \in 1..Len(cols) |->
            IF cols[i].name = lin.name
            THEN [cols[i] EXCEPT
                    !.sources = merge_from(cols[i].sources, lin.sources),
                    !.confidence = merged_confidence(cols[i].confidence, lin.confidence)]
            ELSE cols[i]]
    ELSE Append(cols, lin)

RECURSIVE add_columns(_, _)
add_columns(cols, lins) ==
    IF lins = <<>> THEN cols
    ELSE add_columns(add_column(cols, Head(lins)), Tail(lins))

----------------------------------------------------------------------------
(* registry/table_registry.py *)

\* _normalize_table_name: name.strip().lower(); "T", " t " and " T " are the
\* spellings of "t" in upper case and with surrounding blanks
_normalize_table_name_verbatim(name) == name

_normalize_table_name(name) == IF name \in {"T", " t ", " T "} THEN "t" ELSE name

has_table(reg, name) == _normalize_table_name(name) \in DOMAIN reg

get_table(reg, name) == reg[_normalize_table_name(name)]

\* register_table: raises over a source table, replaces any other definition
register_table_lenient(reg, def) ==
    [tables |-> Put(reg, _normalize_table_name(def.name), def), raised |-> FALSE]

register_table(reg, def) ==
    LET table_name == _normalize_table_name(def.name) IN
    IF table_name \in DOMAIN reg /\ reg[table_name].is_source_table
    THEN [tables |-> reg, raised |-> TRUE]
    ELSE [tables |-> Put(reg, table_name, def), raised |-> FALSE]

\* register_source_table: skipped when the name is present
register_source_table(reg, name, columns) ==
    LET table_name == _normalize_table_name(name) IN
    IF has_table(reg, table_name) THEN reg
    ELSE Put(reg, table_name,
             TableDefinition(table_name, "external", TRUE,
                 [i \in 1..Len(columns) |-> ColumnLineage(columns[i], <<>>)]))

\* update_table_columns: add_column for every new column (the table exists)
update_table_columns(reg, name, new_columns) ==
    LET n == _normalize_table_name(name) IN
    [reg EXCEPT ![n].columns = add_columns(reg[n].columns, new_columns)]

\* remove_table
remove_table(reg, name) ==
    LET n == _normalize_table_name(name) IN
    IF n \in DOMAIN reg THEN Drop(reg, n) ELSE reg

----------------------------------------------------------------------------
(* schema/dict_provider.py: DictSchemaProvider({"s": ["a", "b"]}) *)

SchemaDict == [n \in {"s"} |-> <<"a", "b">>]

\* get_table_columns: the columns of a known table, [] for any other
get_table_columns(sp, name) ==
    IF sp = "dict" /\ name \in DOMAIN SchemaDict THEN SchemaDict[name] ELSE <<>>

----------------------------------------------------------------------------
(* A query "SELECT proj FROM item": item is a table, an aliased subquery   *)
(* "(SELECT proj FROM inner) name", or a join "name JOIN inner".  fails    *)
(* tells where analysis raises: "scope" in build_scope (LineageError, e.g. *)
(* a duplicate alias), "extract" in DependencyExtractor.extract            *)
(* (LineageError, e.g. the complexity limit or an unresolved qualifier in  *)
(* an aggregate), "notimpl" in extract (NotImplementedError).              *)

TableItem(n) == [kind |-> "table", name |-> n, inner |-> n]
SubqueryItem(alias, inner) == [kind |-> "subquery", name |-> alias, inner |-> inner]
JoinItem(left, right) == [kind |-> "join", name |-> left, inner |-> right]

Select(item, proj, fails) == [from |-> item, proj |-> proj, fails |-> fails]

\* projected items are column names, the literal "1 AS k", the aggregate
\* "SUM(a) AS a", and "a GROUP BY a": the column a of a SELECT whose GROUP BY
\* clause names it
ConstantItems == {"1 AS k"}
AggregateItems == {"SUM(a) AS a"}
GroupByItems == {"a GROUP BY a"}

\* DependencyExtractor._get_target_column_name: the alias, else the column
_get_target_column_name(item) ==
    IF item = "1 AS k" THEN "k"
    ELSE IF item \in AggregateItems \cup GroupByItems THEN "a"
    ELSE item

\* the queries that DependencyExtractor.extract hands to
\* _extract_with_aggregation: an aggregate or a GROUP BY clause
aggregation_path(proj) ==
    \E i \in 1..Len(proj) : proj[i] \in AggregateItems \cup GroupByItems

\* DictSchemaProvider.column_exists; there is none without a provider
column_exists(sp, table, column_name) ==
    \E i \in 1..Len(get_table_columns(sp, table)) :
        get_table_columns(sp, table)[i] = column_name

\* confidences of SymbolResolver.resolve_column_with_inference, in
\* thousandths: 0.95 without a schema, 0.3 for a column the schema lacks
NoSchemaConfidence == 950
SchemaMissingConfidence == 300

\* the confidence of a dependency on column_name of the scope's one table:
\* 1.0 on the aggregation path, else as the resolver infers it
dependency_confidence(sp, table, proj, column_name) ==
    IF aggregation_path(proj) THEN FullConfidence
    ELSE IF sp = "none" THEN NoSchemaConfidence
    ELSE IF column_exists(sp, table, column_name) THEN FullConfidence
    ELSE SchemaMissingConfidence

\* DependencyExtractor.extract on a single-table SELECT of plain columns,
\* literals and aggregates: one dependency per projected item, source =
\* (table of the scope, column), or the placeholder (__CONSTANT__, target
\* name) for a literal
extract(sp, table, proj) ==
    [i \in 1..Len(proj) |->
        IF proj[i] \in ConstantItems
        THEN [source |-> ColumnRef(ConstantSentinel, _get_target_column_name(proj[i])),
              target |-> _get_target_column_name(proj[i]),
              confidence |-> FullConfidence,
              is_aggregate |-> FALSE, is_group_by |-> FALSE]
        ELSE [source |-> ColumnRef(table, _get_target_column_name(proj[i])),
              target |-> _get_target_column_name(proj[i]),
              confidence |-> dependency_confidence(sp, table, proj,
                                 _get_target_column_name(proj[i])),
              is_aggregate |-> proj[i] \in AggregateItems,
              is_group_by |-> proj[i] \in GroupByItems]]

\* first-occurrence order of the targets (dict insertion order of "grouped")
RECURSIVE TargetOrder(_, _)
TargetOrder(deps, seen) ==
    IF deps = <<>> THEN <<>>
    ELSE IF Head(deps).target \in seen THEN TargetOrder(Tail(deps), seen)
    ELSE <<Head(deps).target>> \o
         TargetOrder(Tail(deps), seen \cup {Head(deps).target})

SourcesOf(deps, target, filter) ==
    SelectSeq([i \in 1..Len(deps) |-> deps[i]],
              LAMBDA d : d.target = target /\
                         (filter => d.source.table # ConstantSentinel))

\* _convert_dependencies_to_lineages: group by target column, confidence and
\* flags being those of the group's first dependency; the CTE extractor's version
\* (filter = TRUE) drops the __CONSTANT__ placeholder
_convert_dependencies_to_lineages(deps, filter) ==
    LET order == TargetOrder(deps, {})
        lineage(n, ds, first) ==
            [ColumnLineage(n, [j \in 1..Len(ds) |-> ds[j].source]) EXCEPT
                !.confidence = first.confidence,
                !.is_aggregate = first.is_aggregate,
                !.is_group_by = first.is_group_by]
    IN  [i \in 1..Len(order) |->
            lineage(order[i], SourcesOf(deps, order[i], filter),
                    SourcesOf(deps, order[i], FALSE)[1])]

\* the auto-registration loop that follows build_scope in every analyzer
auto_register(reg, sp, name) ==
    IF has_table(reg, name) THEN reg
    ELSE register_source_table(reg, name, get_table_columns(sp, name))

\* SymbolResolver._find_tables_with_column over the two tables of a join
_find_tables_with_column(sp, item, column_name) ==
    SelectSeq(<<item.name, item.inner>>,
              LAMBDA t : \E i \in 1..Len(get_table_columns(sp, t)) :
                            get_table_columns(sp, t)[i] = column_name)

\* SymbolResolver, unqualified column, several tables in scope, policy Fail:
\* without a schema, or when the schema has the column in two tables, the
\* column is ambiguous and AmbiguousColumnError is raised
is_ambiguous(sp, item, column_name) ==
    /\ item.kind = "join"
    /\ (sp = "none" \/ Len(_find_tables_with_column(sp, item, column_name)) > 1)

\* the table an unqualified column resolves to when it is not ambiguous: the
\* only table of the scope, the one table the schema has it in, else the
\* first table
resolved_table(sp, item, column_name) ==
    IF item.kind # "join" THEN item.name
    ELSE IF Len(_find_tables_with_column(sp, item, column_name)) = 1
    THEN _find_tables_with_column(sp, item, column_name)[1]
    ELSE item.name

\* whether extract raises AmbiguousColumnError: the columns of a query on
\* the aggregation path are resolved by resolver.resolve_column directly;
\* those of any other query inside ExpressionVisitor.visit_Column, which
\* catches every exception and returns no column
extract_raises(sp, item, proj) ==
    /\ aggregation_path(proj)
    /\ \E i \in 1..Len(proj) :
          /\ proj[i] \notin ConstantItems
          /\ is_ambiguous(sp, item, _get_target_column_name(proj[i]))

\* DependencyExtractor.extract with the scope of item: a projected item
\* without source columns gets the placeholder source, as a literal does
extract_in_scope(sp, item, proj) ==
    [i \in 1..Len(proj) |->
        IF proj[i] \notin ConstantItems
           /\ is_ambiguous(sp, item, _get_target_column_name(proj[i]))
        THEN [source |-> ColumnRef(ConstantSentinel, _get_target_column_name(proj[i])),
              target |-> _get_target_column_name(proj[i]),
              confidence |-> FullConfidence,
              is_aggregate |-> FALSE, is_group_by |-> FALSE]
        ELSE extract(sp, resolved_table(sp, item, _get_target_column_name(proj[i])),
                     <<proj[i]>>)[1]]

\* SubqueryAnalyzer.analyze_derived_table: the inner SELECT is analyzed
\* (its tables are not registered) and the result registered under the alias
analyze_derived_table(reg, sp, item, proj) ==
    register_table(reg,
        TableDefinition(item.name, "subquery", FALSE,
            _convert_dependencies_to_lineages(extract(sp, item.inner, proj), FALSE)))

\* ScopeBuilder.build_scope
build_scope(reg, sp, q) ==
    IF q.fails = "scope" THEN [tables |-> reg, raised |-> TRUE]
    ELSE IF q.from.kind = "subquery"
         THEN analyze_derived_table(reg, sp, q.from, q.proj)
         ELSE [tables |-> reg, raised |-> FALSE]

\* CreateTableAnalyzer._analyze_query (InsertIntoAnalyzer._analyze_query is
\* the same sequence): scope, source registration, extraction, conversion
_analyze_query(reg, q, sp) ==
    LET registered(reg2) ==
            IF q.fails = "extract"
            THEN [tables |-> reg2, raised |-> TRUE, error |-> "LineageError",
                  lineages |-> <<>>]
            ELSE IF q.fails = "notimpl"
            THEN [tables |-> reg2, raised |-> TRUE,
                  error |-> "NotImplementedError", lineages |-> <<>>]
            ELSE IF extract_raises(sp, q.from, q.proj)
            THEN [tables |-> reg2, raised |-> TRUE, error |-> "LineageError",
                  lineages |-> <<>>]
            ELSE [tables |-> reg2, raised |-> FALSE, error |-> "",
                  lineages |-> _convert_dependencies_to_lineages(
                                   extract_in_scope(sp, q.from, q.proj), FALSE)]
        scoped(sc) ==
            IF sc.raised
            THEN [tables |-> sc.tables, raised |-> TRUE, error |-> "LineageError",
                  lineages |-> <<>>]
            ELSE IF q.from.kind = "join"
            THEN registered(auto_register(auto_register(sc.tables, sp, q.from.name),
                                          sp, q.from.inner))
            ELSE registered(auto_register(sc.tables, sp, q.from.name))
    IN  scoped(build_scope(reg, sp, q))

----------------------------------------------------------------------------
(* analyzer/cte_extractor.py                                               *)
(* A CTE "name AS (SELECT proj FROM from)"; a recursive one is             *)
(* "name AS (SELECT proj FROM from UNION ALL SELECT rec_col FROM name)",   *)
(* rec_fails telling that building the scope of the recursive branch       *)
(* raises.                                                                 *)

CTEDefinition(name, from, proj, fails, is_recursive, rec_col, rec_fails) ==
    [name |-> name, from |-> from, proj |-> proj, fails |-> fails,
     is_recursive |-> is_recursive, rec_col |-> rec_col, rec_fails |-> rec_fails]

\* _analyze_normal_cte: scope, source registration, extraction, CTE definition
_analyze_normal_cte(reg, sp, cte) ==
    LET registered(reg2) ==
            IF cte.fails # "none"
            THEN [tables |-> reg2, raised |-> TRUE, def |-> <<>>]
            ELSE [tables |-> reg2, raised |-> FALSE,
                  def |-> TableDefinition(cte.name, "cte", FALSE,
                             _convert_dependencies_to_lineages(
                                 extract(sp, cte.from, cte.proj), TRUE))]
        scoped(sc) ==
            IF sc.raised THEN [tables |-> sc.tables, raised |-> TRUE, def |-> <<>>]
            ELSE registered(auto_register(sc.tables, sp, cte.from))
    IN  scoped(build_scope(reg, sp, Select(TableItem(cte.from), cte.proj, cte.fails)))

\* _analyze_cte_part: a scope error propagates, an extraction error gives {}
_analyze_cte_part(reg, sp, q) ==
    LET registered(reg2) ==
            IF q.fails # "none"
            THEN [tables |-> reg2, raised |-> FALSE, columns |-> <<>>]
            ELSE [tables |-> reg2, raised |-> FALSE,
                  columns |-> _convert_dependencies_to_lineages(
                                  extract(sp, q.from.name, q.proj), TRUE)]
        scoped(sc) ==
            IF sc.raised THEN [tables |-> sc.tables, raised |-> TRUE, columns |-> <<>>]
            ELSE registered(auto_register(sc.tables, sp, q.from.name))
    IN  scoped(build_scope(reg, sp, q))

ColumnsNamed(cols, c) == \E i \in 1..Len(cols) : cols[i].name = c

SourcesNamed(cols, c) ==
    cols[CHOOSE i \in 1..Len(cols) : cols[i].name = c].sources

\* the name matching of the recursive part ("anchor_col_name in col_name"):
\* between one-letter column names containment is equality
name_matches(anchor_col_name, col_name) == anchor_col_name = col_name

\* resolution of one source of a recursive-part column
resolve_self_reference(cte_name, anchor_columns, col_name, source) ==
    IF source.table # cte_name THEN <<source>>
    ELSE IF ColumnsNamed(anchor_columns, source.column)
         THEN SourcesNamed(anchor_columns, source.column)
    ELSE IF ColumnsNamed(anchor_columns, col_name)
         THEN SourcesNamed(anchor_columns, col_name)
    ELSE IF \E i \in 1..Len(anchor_columns) :
                name_matches(anchor_columns[i].name, col_name)
         THEN anchor_columns[CHOOSE i \in 1..Len(anchor_columns) :
                /\ name_matches(anchor_columns[i].name, col_name)
                /\ \A j \in 1..(i - 1) :
                      ~name_matches(anchor_columns[j].name, col_name)].sources
    ELSE <<source>>     \* "Keep the self-reference as fallback"

\* _analyze_recursive_part: the recursive branch analyzed as a CTE part, its
\* references to the CTE replaced by the anchor's sources, duplicates dropped
_analyze_recursive_part(reg, sp, cte, anchor_columns) ==
    LET resolved(col) ==
            [col EXCEPT
                !.sources = merge_from(<<>>,
                    Concat([j \in 1..Len(col.sources) |->
                        resolve_self_reference(cte.name, anchor_columns,
                            col.name, col.sources[j])])),
                !.confidence = (col.confidence * 9) \div 10]
        analyzed(part) ==
            [tables |-> part.tables, raised |-> part.raised,
             columns |-> [i \in 1..Len(part.columns) |-> resolved(part.columns[i])]]
    IN  analyzed(_analyze_cte_part(reg, sp,
                    Select(TableItem(cte.name), <<cte.rec_col>>,
                           IF cte.rec_fails THEN "scope" ELSE "none")))

\* step 3 of _analyze_recursive_cte: anchor columns, then the recursive ones
RECURSIVE merge_columns(_, _)
merge_columns(merged, recursive_columns) ==
    IF recursive_columns = <<>> THEN merged
    ELSE LET r == Head(recursive_columns) IN
         merge_columns(
            IF ColumnsNamed(merged, r.name)
            THEN [i \in 1..Len(merged) |->
                    IF merged[i].name = r.name
                    THEN [name |-> r.name,
                          sources |-> merge_from(<<>>, merged[i].sources \o r.sources),
                          confidence |-> IF merged[i].confidence <= r.confidence
                                         THEN merged[i].confidence ELSE r.confidence,
                          is_aggregate |-> merged[i].is_aggregate \/ r.is_aggregate,
                          is_group_by |-> merged[i].is_group_by \/ r.is_group_by]
                    ELSE merged[i]]
            ELSE Append(merged, r),
            Tail(recursive_columns))

\* _analyze_recursive_cte
_analyze_recursive_cte(reg, sp, cte) ==
    LET registered(rec, merged) ==
            [tables |-> register_table(rec.tables, merged).tables,
             raised |-> FALSE, def |-> merged]
        recursed(anchor, rec) ==
            IF rec.raised
            THEN [tables |-> rec.tables, raised |-> TRUE, def |-> <<>>]
            ELSE registered(rec, TableDefinition(cte.name, "cte", FALSE,
                                     merge_columns(anchor.columns, rec.columns)))
        temporary(anchor, temp) ==
            IF temp.raised
            THEN [tables |-> temp.tables, raised |-> TRUE, def |-> <<>>]
            ELSE recursed(anchor,
                     _analyze_recursive_part(temp.tables, sp, cte, anchor.columns))
        anchored(anchor) ==
            IF anchor.raised
            THEN \* fallback to the UNION analysis, whose first scope raises again
                 [tables |-> anchor.tables, raised |-> TRUE, def |-> <<>>]
            ELSE IF anchor.columns = <<>>
            THEN \* fallback to the UNION analysis: it registers the tables of
                 \* every branch, the CTE's own name among them, and raises
                 [tables |-> IF cte.rec_fails THEN anchor.tables
                             ELSE auto_register(anchor.tables, sp, cte.name),
                  raised |-> TRUE, def |-> <<>>]
            ELSE temporary(anchor,
                     register_table(anchor.tables,
                         TableDefinition(cte.name, "cte", FALSE, anchor.columns)))
    IN  anchored(_analyze_cte_part(reg, sp,
                     Select(TableItem(cte.from), cte.proj, cte.fails)))

\* analyze_and_register_ctes: a CTE whose analysis or registration raises is
\* skipped; the result is the registry and the dict of the registered CTEs
RECURSIVE analyze_and_register_ctes(_, _, _, _)
analyze_and_register_ctes(reg, sp, ctes, registered_ctes) ==
    IF ctes = <<>> THEN [tables |-> reg, cte_tables |-> registered_ctes]
    ELSE LET continue(reg2, registered) ==
                 analyze_and_register_ctes(reg2, sp, Tail(ctes), registered)
             registering(r, rr) ==
                 IF rr.raised THEN continue(r.tables, registered_ctes)
                 ELSE continue(rr.tables, Put(registered_ctes, Head(ctes).name, r.def))
             analyzed(r) ==
                 IF r.raised THEN continue(r.tables, registered_ctes)
                 ELSE registering(r, register_table(r.tables, r.def))
         IN  analyzed(IF Head(ctes).is_recursive
                      THEN _analyze_recursive_cte(reg, sp, Head(ctes))
                      ELSE _analyze_normal_cte(reg, sp, Head(ctes)))

----------------------------------------------------------------------------
(* Expansion of CTE references before the CTEs are removed                 *)
(* (CreateTableAnalyzer._cleanup_ctes, InsertIntoAnalyzer._expand_cte_lineage) *)

MaxSources == 12   \* a sources list longer than this is still growing

\* the inner "for source in col_lineage.sources" loop
expand_sources(sources, cte_tables) ==
    Concat([j \in 1..Len(sources) |->
        IF sources[j].table \in DOMAIN cte_tables
        THEN IF has_column(cte_tables[sources[j].table], sources[j].column)
             THEN get_column(cte_tables[sources[j].table], sources[j].column).sources
             ELSE <<>>
        ELSE <<sources[j]>>])

\* one "for col_name, col_lineage in table.columns.items()" loop, assigning
\* in place; the dict entries named in aliased are the very object "def"
RECURSIVE expand_columns(_, _, _, _)
expand_columns(def, i, cte_tables, aliased) ==
    IF i > Len(def.columns) THEN def
    ELSE expand_columns(
            [def EXCEPT !.columns[i].sources =
                expand_sources(def.columns[i].sources,
                    [k \in DOMAIN cte_tables |->
                        IF k \in aliased THEN def ELSE cte_tables[k]])],
            i + 1, cte_tables, aliased)

TooLong(def) == \E i \in 1..Len(def.columns) : Len(def.columns[i].sources) > MaxSources

\* one pass of the "while changed" loop of _cleanup_ctes over all tables
expand_pass(reg, cte_tables) ==
    [n \in DOMAIN reg |->
        IF reg[n].name \in DOMAIN cte_tables THEN reg[n]
        ELSE expand_columns(reg[n], 1, cte_tables, {})]

\* the "while changed" loop of _cleanup_ctes; hung when it revisits a state
RECURSIVE expand_all(_, _, _)
expand_all(reg, cte_tables, seen) ==
    LET passed(next) ==
            IF next = reg THEN [tables |-> reg, hung |-> FALSE]
            ELSE IF next \in seen \/ \E n \in DOMAIN next : TooLong(next[n])
            THEN [tables |-> next, hung |-> TRUE]
            ELSE expand_all(next, cte_tables, seen \cup {reg})
    IN  passed(expand_pass(reg, cte_tables))

remove_ctes(reg, names) ==
    [n \in (DOMAIN reg) \ {_normalize_table_name(k) : k \in names} |-> reg[n]]

\* CreateTableAnalyzer._cleanup_ctes: expand, then remove every CTE
create_cleanup_ctes(reg, cte_tables) ==
    LET expanded(e) ==
            [tables |-> remove_ctes(e.tables, DOMAIN cte_tables), hung |-> e.hung]
    IN  expanded(expand_all(reg, cte_tables, {}))

\* InsertIntoAnalyzer._expand_cte_lineage: the "while changed" loop over the
\* target table only
RECURSIVE _expand_cte_lineage(_, _, _, _)
_expand_cte_lineage(def, cte_tables, aliased, seen) ==
    LET passed(next) ==
            IF next = def THEN [def |-> def, hung |-> FALSE]
            ELSE IF next \in seen \/ TooLong(next) THEN [def |-> next, hung |-> TRUE]
            ELSE _expand_cte_lineage(next, cte_tables, aliased, seen \cup {def})
    IN  passed(expand_columns(def, 1, cte_tables, aliased))

\* InsertIntoAnalyzer._cleanup_ctes: remove every CTE, nothing else
insert_cleanup_ctes(reg, cte_tables) == remove_ctes(reg, DOMAIN cte_tables)

----------------------------------------------------------------------------
(* A classified statement: its kind, target table, CTE list, main query   *)
(* and (INSERT) explicit column list.                                      *)

Statement(type, target, ctes, q, columns) ==
    [type |-> type, target |-> target, ctes |-> ctes, query |-> q,
     columns |-> columns]

Outcome(reg, raised, error, loops, cte_names, step) ==
    [tables |-> reg, raised |-> raised, error |-> error, hung |-> loops,
     cte_tables |-> cte_names, step |-> step]

\* CreateTableAnalyzer.analyze
create_table_analyze(reg, sp, stmt) ==
    LET cleaned(c, e, raised, error, step) ==
            Outcome(e.tables, raised, error, e.hung, DOMAIN c.cte_tables, step)
        registered(c, r) ==
            IF r.raised
            THEN Outcome(r.tables, TRUE, "LineageError", FALSE,
                         DOMAIN c.cte_tables, "register")
            ELSE cleaned(c, create_cleanup_ctes(r.tables, c.cte_tables),
                         FALSE, "", "")
        analyzed(c, q) ==
            IF q.raised
            THEN cleaned(c, create_cleanup_ctes(q.tables, c.cte_tables),
                         TRUE, q.error, "query")
            ELSE registered(c,
                     register_table(q.tables,
                         TableDefinition(stmt.target,
                             IF stmt.type = "CREATE_VIEW" THEN "view" ELSE "table",
                             FALSE, q.lineages)))
        with_ctes(c) == analyzed(c, _analyze_query(c.tables, stmt.query, sp))
    IN  with_ctes(analyze_and_register_ctes(reg, sp, stmt.ctes, EmptyMap))

\* InsertIntoAnalyzer._match_columns: by the explicit column list, else by
\* position in the target's column order
_match_columns(table_def, new_lineages, target_columns) ==
    LET table_columns == [i \in 1..Len(table_def.columns) |-> table_def.columns[i].name]
    IN  IF target_columns # <<>>
        THEN IF Len(target_columns) # Len(new_lineages)
             THEN [raised |-> TRUE, matched |-> <<>>]
             ELSE IF \E i \in 1..Len(target_columns) :
                        ~has_column(table_def, target_columns[i])
             THEN [raised |-> TRUE, matched |-> <<>>]
             ELSE [raised |-> FALSE,
                   matched |-> [i \in 1..Len(target_columns) |->
                       [new_lineages[i] EXCEPT !.name = target_columns[i]]]]
        ELSE IF Len(new_lineages) # Len(table_columns)
             THEN [raised |-> TRUE, matched |-> <<>>]
             ELSE [raised |-> FALSE,
                   matched |-> [i \in 1..Len(table_columns) |->
                       [new_lineages[i] EXCEPT !.name = table_columns[i]]]]

\* step 3 of InsertIntoAnalyzer.analyze: the target is not in the Registry,
\* LineageError before anything is analyzed or registered
target_missing_late(reg, sp, stmt) ==
    Outcome(_analyze_query(reg, stmt.query, sp).tables, TRUE, "LineageError",
            FALSE, {}, "target")

target_missing(reg, sp, stmt) ==
    Outcome(reg, TRUE, "LineageError", FALSE, {}, "target")

\* InsertIntoAnalyzer.analyze
insert_into_analyze(reg, sp, stmt) ==
    LET target == _normalize_table_name(stmt.target)
        expanded(c, updated, e) ==
            Outcome(insert_cleanup_ctes(Put(updated, target, e.def), c.cte_tables),
                    FALSE, "", e.hung, DOMAIN c.cte_tables, "")
        \* aliased: the dict entries that are the object registered under the target
        updating(c, q, updated) ==
            expanded(c, updated,
                IF DOMAIN c.cte_tables = {}
                THEN [def |-> updated[target], hung |-> FALSE]
                ELSE _expand_cte_lineage(updated[target], c.cte_tables,
                         {k \in DOMAIN c.cte_tables : c.cte_tables[k] = q.tables[target]},
                         {}))
        matched(c, q, m) ==
            IF m.raised
            THEN Outcome(q.tables, TRUE, "LineageError", FALSE,
                         DOMAIN c.cte_tables, "match")
            ELSE updating(c, q, update_table_columns(q.tables, stmt.target, m.matched))
        analyzed(c, q) ==
            IF q.raised
            THEN Outcome(insert_cleanup_ctes(q.tables, c.cte_tables), TRUE, q.error,
                         FALSE, DOMAIN c.cte_tables, "query")
            ELSE matched(c, q, _match_columns(get_table(reg, stmt.target),
                                              q.lineages, stmt.columns))
        with_ctes(c) == analyzed(c, _analyze_query(c.tables, stmt.query, sp))
    IN  IF ~has_table(reg, stmt.target)
        THEN target_missing(reg, sp, stmt)
        ELSE with_ctes(analyze_and_register_ctes(reg, sp, stmt.ctes, EmptyMap))

\* WithCTEAnalyzer.analyze: register the CTEs and remove them again
with_cte_analyze(reg, sp, stmt) ==
    LET cleaned(c) ==
            Outcome(remove_ctes(c.tables, DOMAIN c.cte_tables), FALSE, "", FALSE,
                    DOMAIN c.cte_tables, "")
    IN  cleaned(analyze_and_register_ctes(reg, sp, stmt.ctes, EmptyMap))

\* ScriptAnalyzer._analyze_statement: the analyzer's outcome and what becomes
\* of an exception: "caught" gives a {success: False} result, otherwise the
\* exception leaves _analyze_statement
_analyze_statement(reg, sp, stmt) ==
    IF stmt.type \in {"CREATE_TABLE_AS", "CREATE_VIEW"}
    THEN [out |-> create_table_analyze(reg, sp, stmt), caught |-> FALSE]
    ELSE IF stmt.type = "INSERT_INTO_SELECT"
    THEN LET handled(o) == [out |-> o, caught |-> o.error = "LineageError"]
         IN  handled(insert_into_analyze(reg, sp, stmt))
    ELSE IF stmt.type = "WITH_CTE"
    THEN [out |-> with_cte_analyze(reg, sp, stmt), caught |-> TRUE]
    ELSE IF stmt.type = "SELECT"
    THEN [out |-> Outcome(reg, FALSE, "", FALSE, {}, ""), caught |-> TRUE]
    ELSE [out |-> Outcome(reg, TRUE, "unsupported", FALSE, {}, "unsupported"),
          caught |-> TRUE]

----------------------------------------------------------------------------
(* parser/statement_classifier.py                                          *)
(* A parsed INSERT: the node type of its body (args["expression"]: a       *)
(* Select, a Union, or Values), its target, its query and column list.     *)

InsertAst(expression, target, q, columns) ==
    [ast_type |-> "Insert", expression |-> expression, target |-> target,
     query |-> q, columns |-> columns]

\* StatementClassifier._has_select_clause:
\* isinstance(expression, expressions.Select)
_has_select_clause(insert_ast) == insert_ast.expression = "Select"

\* StatementClassifier.classify on an Insert node: INSERT_INTO_SELECT with
\* the target and the query, else UNSUPPORTED with neither
classify(ast) ==
    IF _has_select_clause(ast)
    THEN Statement("INSERT_INTO_SELECT", ast.target, <<>>, ast.query, ast.columns)
    ELSE Statement("UNSUPPORTED", "", <<>>, ast.query, <<>>)

\* INSERT INTO t SELECT a FROM s, INSERT INTO t SELECT a FROM s UNION ...,
\* INSERT INTO t VALUES (...)
InsertAsts ==
    {InsertAst(e, "t", Select(TableItem("s"), <<"a">>, "none"), <<>>) :
        e \in {"Select", "Union", "Values"}}

----------------------------------------------------------------------------
(* The statements of the scripts that are analyzed *)

NormalCte(name, from, proj, fails) ==
    CTEDefinition(name, from, proj, fails, FALSE, "a", FALSE)

RecursiveCte(name, from, proj, rec_col, rec_fails) ==
    CTEDefinition(name, from, proj, "none", TRUE, rec_col, rec_fails)

\* SELECT ... FROM a table, or from an aliased subquery, sound or failing
PlainQueries ==
    {Select(TableItem(f), <<"a">>, "none") : f \in Spellings}
    \cup {Select(TableItem("s"), <<"a", "b">>, "none"),
          Select(SubqueryItem("u", "s"), <<"a">>, "none"),
          Select(SubqueryItem("s", "t"), <<"a">>, "none"),
          Select(TableItem("s"), <<"1 AS k">>, "none"),
          Select(TableItem("s"), <<"a">>, "extract"),
          Select(TableItem("s"), <<"a">>, "notimpl")}

\* WITH clauses together with the main query that reads them
CteQueries ==
    {  \* WITH c AS (SELECT a FROM s) SELECT ... FROM c
       <<<<NormalCte("c", "s", <<"a">>, "none")>>, Select(TableItem("c"), <<"a">>, "none")>>,
       <<<<NormalCte("c", "s", <<"a">>, "none")>>, Select(TableItem("c"), <<"a", "b">>, "none")>>,
       <<<<NormalCte("c", "s", <<"a">>, "none")>>, Select(TableItem("c"), <<"a">>, "extract")>>,
       <<<<NormalCte("c", "s", <<"a">>, "none")>>, Select(TableItem("c"), <<"a">>, "notimpl")>>,
       \* WITH c AS (SELECT 1 AS k FROM s) SELECT k FROM c
       <<<<NormalCte("c", "s", <<"1 AS k">>, "none")>>, Select(TableItem("c"), <<"k">>, "none")>>,
       \* WITH c AS (SELECT a FROM c) SELECT a FROM c
       <<<<NormalCte("c", "c", <<"a">>, "none")>>, Select(TableItem("c"), <<"a">>, "none")>>,
       \* a CTE whose analysis raises
       <<<<NormalCte("c", "s", <<"a">>, "extract")>>, Select(TableItem("c"), <<"a">>, "none")>>,
       \* WITH RECURSIVE c AS (SELECT a FROM s UNION ALL SELECT c.b FROM c)
       <<<<RecursiveCte("c", "s", <<"a">>, "b", FALSE)>>, Select(TableItem("c"), <<"a", "b">>, "none")>>,
       <<<<RecursiveCte("c", "s", <<"a">>, "a", TRUE)>>, Select(TableItem("c"), <<"a">>, "none")>>,
       \* two CTEs: a chain, and a pair reading each other
       <<<<NormalCte("c", "s", <<"a">>, "none"), NormalCte("t", "c", <<"a">>, "none")>>,
         Select(TableItem("t"), <<"a">>, "none")>>,
       <<<<NormalCte("t", "c", <<"a">>, "none"), NormalCte("c", "t", <<"a">>, "none")>>,
         Select(TableItem("t"), <<"a">>, "none")>>,
       \* a CTE with the name of a table the script reads
       <<<<NormalCte("s", "t", <<"a">>, "none")>>, Select(TableItem("s"), <<"a">>, "none")>> }

Statements ==
    {Statement("CREATE_TABLE_AS", t, <<>>, q, <<>>) :
        t \in {"t", "u"}, q \in PlainQueries}
    \cup {Statement("CREATE_TABLE_AS", "c", <<>>, Select(TableItem("s"), <<"a">>, "none"), <<>>),
          Statement("CREATE_VIEW", "u", <<>>, Select(TableItem("s"), <<"a">>, "none"), <<>>)}
    \cup {Statement("CREATE_TABLE_AS", "u", cq[1], cq[2], <<>>) : cq \in CteQueries}
    \cup {Statement("INSERT_INTO_SELECT", "t", <<>>, q, cols) :
        q \in {Select(TableItem("s"), <<"a">>, "none"),
               Select(TableItem("s"), <<"a", "b">>, "none"),
               Select(TableItem("c"), <<"a">>, "none"),
               Select(TableItem("u"), <<"a">>, "none"),
               Select(TableItem("s"), <<"a">>, "notimpl")},
        cols \in {<<>>, <<"b">>}}
    \cup {Statement("INSERT_INTO_SELECT", "t", cq[1], cq[2], <<>>) : cq \in CteQueries}
    \cup {Statement("INSERT_INTO_SELECT", "t",
                    <<NormalCte("t", "s", <<"a">>, "none")>>,
                    Select(TableItem("t"), <<"a">>, "none"), <<>>)}
    \cup {  \* ... SELECT a FROM s JOIN u, ... SELECT SUM(a) AS a FROM s JOIN u
          Statement("CREATE_TABLE_AS", "t", <<>>,
                    Select(JoinItem("s", "u"), <<"a">>, "none"), <<>>),
          Statement("INSERT_INTO_SELECT", "t", <<>>,
                    Select(JoinItem("s", "u"), <<"a">>, "none"), <<>>),
          Statement("INSERT_INTO_SELECT", "t", <<>>,
                    Select(JoinItem("s", "u"), <<"SUM(a) AS a">>, "none"), <<>>),
          \* CREATE TABLE t AS / INSERT INTO t SELECT SUM(a) AS a FROM s
          Statement("CREATE_TABLE_AS", "t", <<>>,
                    Select(TableItem("s"), <<"SUM(a) AS a">>, "none"), <<>>),
          Statement("INSERT_INTO_SELECT", "t", <<>>,
                    Select(TableItem("s"), <<"SUM(a) AS a">>, "none"), <<>>),
          \* INSERT INTO t SELECT a FROM s GROUP BY a
          Statement("INSERT_INTO_SELECT", "t", <<>>,
                    Select(TableItem("s"), <<"a GROUP BY a">>, "none"), <<>>),
          \* CREATE TABLE t AS SELECT a, b FROM (SELECT a, b FROM s) u
          Statement("CREATE_TABLE_AS", "t", <<>>,
                    Select(SubqueryItem("u", "s"), <<"a", "b">>, "none"), <<>>),
          \* INSERT INTO t (a) WITH c AS (SELECT a FROM s) SELECT a FROM c
          Statement("INSERT_INTO_SELECT", "t",
                    <<NormalCte("c", "s", <<"a">>, "none")>>,
                    Select(TableItem("c"), <<"a">>, "none"), <<"a">>),
          \* INSERT INTO t (a) WITH u AS (SELECT a, b FROM s) SELECT a FROM u
          Statement("INSERT_INTO_SELECT", "t",
                    <<NormalCte("u", "s", <<"a", "b">>, "none")>>,
                    Select(TableItem("u"), <<"a">>, "none"), <<"a">>)}
    \cup {Statement("WITH_CTE", "", cq[1], cq[2], <<>>) :
            cq \in {x \in CteQueries : x[2].proj = <<"a">> /\ x[2].fails = "none"
                                        /\ Len(x[1]) = 1}}
    \cup {Statement("SELECT", "", <<>>, Select(TableItem("s"), <<"a">>, "none"), <<>>),
          Statement("UNSUPPORTED", "", <<>>, Select(TableItem("s"), <<"a">>, "none"), <<>>)}
    \cup {classify(ast) : ast \in InsertAsts}

----------------------------------------------------------------------------
(* ScriptAnalyzer.analyze_script *)

NoStatement == [type |-> "", target |-> "", outcome |-> "", step |-> "",
                cte_tables |-> {}, statement_index |-> -1]

Init ==
    /\ tables = EmptyMap
    /\ statement_counter = 0
    /\ analysis_results = <<>>
    /\ aborted = FALSE
    /\ hung = FALSE
    /\ schema_provider \in {"none", "dict"}
    /\ last = NoStatement
    /\ pc = "script"
    /\ query = <<>>
    /\ stack = <<>>
    /\ all_paths = <<>>
    /\ impacted = <<>>
    /\ visited = {}
    /\ dependency = <<>>
    /\ data = <<>>
    /\ restored = <<>>

\* one turn of the loop of analyze_script: _analyze_statement on the next
\* statement, its result appended and the statement counter incremented,
\* unless an exception leaves the loop or the analyzer never returns
Analyze(stmt) ==
    /\ pc = "script" /\ ~aborted /\ ~hung
    /\ statement_counter < MaxStatements
    /\ \E r \in {_analyze_statement(tables, schema_provider, stmt)} :
       LET o == r.out
           escapes == o.raised /\ ~r.caught
       IN  /\ tables' = o.tables
           /\ hung' = o.hung
           /\ aborted' = (~o.hung /\ escapes)
           /\ analysis_results' =
                IF o.hung \/ escapes THEN analysis_results
                ELSE Append(analysis_results, [success |-> ~o.raised])
           /\ statement_counter' =
                IF o.hung \/ escapes THEN statement_counter
                ELSE statement_counter + 1
           /\ last' = [type |-> stmt.type, target |-> stmt.target,
                       outcome |-> IF o.hung THEN "hung"
                                   ELSE IF escapes THEN "escaped"
                                   ELSE IF o.raised THEN "failed" ELSE "success",
                       step |-> o.step, cte_tables |-> o.cte_tables,
                       statement_index |-> last.statement_index + 1]
    /\ UNCHANGED <<schema_provider, pc>>
    /\ UNCHANGED resolverVars
    /\ UNCHANGED serialVars

AnalyzeStatement == \E stmt \in Statements : Analyze(stmt)

Next == AnalyzeStatement

Spec == Init /\ [][Next]_vars

----------------------------------------------------------------------------
(* ScriptAnalyzer.analyze_script called as a whole, and called again on    *)
(* the same ScriptAnalyzer: the registry is made in __init__ and           *)
(* analyze_script starts from it as it is                                  *)

\* the loop of analyze_script over the classified statements, from the
\* registry and the counter it finds; index is the classifier's
\* statement_index of the next statement
RECURSIVE analyze_script(_, _, _, _, _, _)
analyze_script(reg, counter, sp, statements, results, index) ==
    IF statements = <<>>
    THEN [tables |-> reg, statement_counter |-> counter, analysis_results |-> results,
          aborted |-> FALSE, hung |-> FALSE, statement_index |-> index - 1]
    ELSE LET turned(r) ==
                 IF r.out.hung
                 THEN [tables |-> r.out.tables, statement_counter |-> counter,
                       analysis_results |-> results, aborted |-> FALSE, hung |-> TRUE,
                       statement_index |-> index]
                 ELSE IF r.out.raised /\ ~r.caught
                 THEN [tables |-> r.out.tables, statement_counter |-> counter,
                       analysis_results |-> results, aborted |-> TRUE, hung |-> FALSE,
                       statement_index |-> index]
                 ELSE analyze_script(r.out.tables, counter + 1, sp, Tail(statements),
                          Append(results, [success |-> ~r.out.raised]), index + 1)
         IN  turned(_analyze_statement(reg, sp, Head(statements)))

\* a new ScriptAnalyzer, then analyze_script(script)
fresh_analyze_script(sp, statements) ==
    analyze_script(EmptyMap, 0, sp, statements, <<>>, 0)

\* the statements the scripts are made of
ScriptStatements ==
    {Statement("CREATE_TABLE_AS", "t", <<>>, Select(TableItem("s"), <<"a">>, "none"), <<>>),
     Statement("CREATE_TABLE_AS", "u", <<NormalCte("c", "t", <<"a">>, "none")>>,
               Select(TableItem("c"), <<"a">>, "none"), <<>>),
     Statement("INSERT_INTO_SELECT", "t", <<>>, Select(TableItem("s"), <<"a">>, "none"), <<>>),
     Statement("INSERT_INTO_SELECT", "t", <<>>, Select(TableItem("u"), <<"a">>, "none"), <<>>),
     Statement("CREATE_TABLE_AS", "T", <<>>, Select(TableItem("s"), <<"a">>, "none"), <<>>)}

Scripts ==
    {<<x>> : x \in ScriptStatements}
    \cup {<<x, y>> : x \in ScriptStatements, y \in ScriptStatements}

\* one call of analyze_script on the ScriptAnalyzer; last tells the script
\* and the number of the call
AnalyzeScript(script) ==
    /\ pc = "script" /\ ~aborted /\ ~hung
    /\ statement_counter < MaxStatements
    /\ \E r \in {analyze_script(tables, statement_counter, schema_provider,
                                 script, <<>>, 0)} :
          /\ tables' = r.tables
          /\ statement_counter' = r.statement_counter
          /\ analysis_results' = r.analysis_results
          /\ aborted' = r.aborted
          /\ hung' = r.hung
          /\ last' = [type |-> script[Len(script)].type,
                      target |-> script[Len(script)].target,
                      outcome |-> IF r.hung THEN "hung"
                                  ELSE IF r.aborted THEN "escaped" ELSE "returned",
                      step |-> "", cte_tables |-> {},
                      statement_index |-> r.statement_index,
                      script |-> script,
                      call |-> IF last.type = "" THEN 1 ELSE last.call + 1]
    /\ UNCHANGED <<schema_provider, pc>>
    /\ UNCHANGED resolverVars
    /\ UNCHANGED serialVars

AnalyzeScriptCall == \E script \in Scripts : AnalyzeScript(script)

ScriptSpec == Init /\ [][AnalyzeScriptCall]_vars

----------------------------------------------------------------------------
(* resolver/transitive_resolver.py: TransitiveLineageResolver               *)

\* node_key = f"{table_name}.{column_name}"
node_key(table_name, column_name) == <<table_name, column_name>>

\* steps 1 and 3 of _dfs_trace and the head of _dfs_impact: return at once
\* beyond max_depth or on a node already visited
cut_off_by_depth(depth, max_depth, key, seen) == depth > max_depth

cut_off(depth, max_depth, key, seen) == depth > max_depth \/ key \in seen

\* _dfs_trace, as the list of the paths it appends to all_paths
RECURSIVE _dfs_trace(_, _, _, _, _, _, _)
_dfs_trace(reg, table_name, column_name, current_path, seen, depth, max_depth) ==
    IF cut_off(depth, max_depth, node_key(table_name, column_name), seen) THEN <<>>
    ELSE IF ~has_table(reg, table_name) THEN <<>>
    ELSE IF ~has_column(get_table(reg, table_name), column_name) THEN <<>>
    ELSE LET table_def == get_table(reg, table_name)
             column_lineage == get_column(table_def, column_name)
             path == Append(current_path, ColumnRef(table_name, column_name))
         IN  IF table_def.is_source_table \/ column_lineage.sources = <<>>
             THEN <<path>>
             ELSE Concat([i \in 1..Len(column_lineage.sources) |->
                     _dfs_trace(reg, column_lineage.sources[i].table,
                                column_lineage.sources[i].column, path,
                                seen \cup {node_key(table_name, column_name)},
                                depth + 1, max_depth)])

\* trace_to_source on a table and column that exist
trace_to_source(reg, table_name, column_name, max_depth) ==
    _dfs_trace(reg, table_name, column_name, <<>>, {}, 0, max_depth)

\* the columns that name (table_name, column_name) among their sources, one
\* entry per matching source: what the three nested loops of _dfs_impact find
downstream(reg, table_name, column_name) ==
    UNION {UNION {
        {[table |-> reg[n].name, column |-> reg[n].columns[i].name, source |-> j] :
            j \in {k \in 1..Len(reg[n].columns[i].sources) :
                     reg[n].columns[i].sources[k] = ColumnRef(table_name, column_name)}} :
        i \in 1..Len(reg[n].columns)} : n \in DOMAIN reg}

\* models/lineage_path.py, LineagePath.hops: len(self.nodes) - 1 if
\* self.nodes else 0
hops(nodes) == IF nodes # <<>> THEN Len(nodes) - 1 ELSE 0

\* the successor of a loop index ("for source in column_lineage.sources")
next_source_same(i) == i

next_source(i) == i + 1

----------------------------------------------------------------------------
(* The resolver as a machine: one step per call, per loop turn, per return *)

TraceFrame(t, c, path, seen, depth) ==
    [table |-> t, column |-> c, path |-> path, seen |-> seen, depth |-> depth, i |-> 0]

ImpactFrame(t, c, depth) ==
    [table |-> t, column |-> c, depth |-> depth, entered |-> FALSE, todo |-> {}]

Top == stack[Len(stack)]
Pop == SubSeq(stack, 1, Len(stack) - 1)

\* trace_to_source: validation, then the first call of _dfs_trace
StartTrace(t, c, d) ==
    /\ pc = "ready"
    /\ query' = [kind |-> "trace", table |-> t, column |-> c, max_depth |-> d]
    /\ IF has_table(tables, t) /\ has_column(get_table(tables, t), c)
       THEN /\ pc' = "trace"
            /\ stack' = <<TraceFrame(t, c, <<>>, {}, 0)>>
       ELSE /\ pc' = "raised"
            /\ stack' = <<>>
    /\ UNCHANGED <<all_paths, impacted, visited>>
    /\ UNCHANGED scriptVars
    /\ UNCHANGED serialVars

\* _dfs_trace from its entry to the source loop (steps 1 to 7)
DfsTraceEnter ==
    /\ pc = "trace" /\ stack # <<>> /\ Top.i = 0
    /\ LET f == Top
           key == node_key(f.table, f.column)
           known == has_table(tables, f.table)
                    /\ has_column(get_table(tables, f.table), f.column)
           table_def == get_table(tables, f.table)
           column_lineage == get_column(table_def, f.column)
           path == Append(f.path, ColumnRef(f.table, f.column))
       IN  IF cut_off(f.depth, query.max_depth, key, f.seen) \/ ~known
           THEN stack' = Pop /\ UNCHANGED all_paths
           ELSE IF table_def.is_source_table \/ column_lineage.sources = <<>>
           THEN stack' = Pop /\ all_paths' = Append(all_paths, path)
           ELSE /\ stack' = [stack EXCEPT ![Len(stack)] =
                                [f EXCEPT !.i = 1, !.path = path,
                                          !.seen = f.seen \cup {key}]]
                /\ UNCHANGED all_paths
    /\ UNCHANGED <<pc, query, impacted, visited>>
    /\ UNCHANGED scriptVars
    /\ UNCHANGED serialVars

\* one turn of "for source in column_lineage.sources", or the return after it
DfsTraceLoop ==
    /\ pc = "trace" /\ stack # <<>> /\ Top.i > 0
    /\ LET f == Top
           sources == get_column(get_table(tables, f.table), f.column).sources
       IN  IF f.i <= Len(sources)
           THEN stack' = Append([stack EXCEPT ![Len(stack)].i = next_source(f.i)],
                                TraceFrame(sources[f.i].table, sources[f.i].column,
                                           f.path, f.seen, f.depth + 1))
           ELSE stack' = Pop
    /\ UNCHANGED <<pc, query, all_paths, impacted, visited>>
    /\ UNCHANGED scriptVars
    /\ UNCHANGED serialVars

\* find_impact: validation, then the first call of _dfs_impact
StartImpact(t, c, d) ==
    /\ pc = "ready"
    /\ query' = [kind |-> "impact", table |-> t, column |-> c, max_depth |-> d]
    /\ IF has_table(tables, t)
          /\ (get_table(tables, t).is_source_table
              \/ has_column(get_table(tables, t), c))
       THEN /\ pc' = "impact"
            /\ stack' = <<ImpactFrame(t, c, 0)>>
       ELSE /\ pc' = "raised"
            /\ stack' = <<>>
    /\ UNCHANGED <<all_paths, impacted, visited>>
    /\ UNCHANGED scriptVars
    /\ UNCHANGED serialVars

\* _dfs_impact from its entry to the loops over the registry
DfsImpactEnter ==
    /\ pc = "impact" /\ stack # <<>> /\ ~Top.entered
    /\ LET f == Top
           key == node_key(f.table, f.column)
       IN  IF cut_off(f.depth, query.max_depth, key, visited)
           THEN stack' = Pop /\ UNCHANGED visited
           ELSE /\ visited' = visited \cup {key}
                /\ stack' = [stack EXCEPT ![Len(stack)] =
                                [f EXCEPT !.entered = TRUE,
                                          !.todo = downstream(tables, f.table, f.column)]]
    /\ UNCHANGED <<pc, query, all_paths, impacted>>
    /\ UNCHANGED scriptVars
    /\ UNCHANGED serialVars

\* one matching source found by the loops (in the order of the registry's
\* dicts, any order here): append it and descend; or the return after them
DfsImpactLoop ==
    /\ pc = "impact" /\ stack # <<>> /\ Top.entered
    /\ IF Top.todo # {}
       THEN \E e \in Top.todo :
               /\ impacted' = Append(impacted, ColumnRef(e.table, e.column))
               /\ stack' = Append([stack EXCEPT ![Len(stack)].todo = Top.todo \ {e}],
                                  ImpactFrame(e.table, e.column, Top.depth + 1))
       ELSE stack' = Pop /\ UNCHANGED impacted
    /\ UNCHANGED <<pc, query, all_paths, visited>>
    /\ UNCHANGED scriptVars
    /\ UNCHANGED serialVars

\* the outermost call returned: the result goes back to the caller
Return ==
    /\ pc \in {"trace", "impact"} /\ stack = <<>>
    /\ pc' = "done"
    /\ UNCHANGED <<query, stack, all_paths, impacted, visited>>
    /\ UNCHANGED scriptVars
    /\ UNCHANGED serialVars

----------------------------------------------------------------------------
(* Registries handed to the resolver: an External table s, derived tables  *)
(* t and u and possibly c over it, with sources that chain, fork, loop,    *)
(* dangle (x is no table) or spell a table in upper case.                  *)

Derived(name, sources) ==
    TableDefinition(name, "table", FALSE, <<ColumnLineage("a", sources)>>)

SourcesOfT ==
    {<<>>, <<ColumnRef("s", "a")>>, <<ColumnRef("t", "a")>>, <<ColumnRef("u", "a")>>,
     <<ColumnRef("s", "a"), ColumnRef("u", "a")>>}

SourcesOfU ==
    {<<ColumnRef("s", "a")>>, <<ColumnRef("t", "a")>>, <<ColumnRef("T", "a")>>,
     <<ColumnRef("u", "a")>>, <<ColumnRef("x", "a")>>,
     <<ColumnRef("t", "a"), ColumnRef("s", "a")>>}

SourcesOfC ==
    {<<ColumnRef("u", "a")>>, <<ColumnRef("t", "a"), ColumnRef("u", "a")>>}

Registries ==
    {[n \in {"s", "t", "u"} |->
        IF n = "s"
        THEN TableDefinition("s", "external", TRUE,
                 [i \in 1..Len(sc) |-> ColumnLineage(sc[i], <<>>)])
        ELSE IF n = "t" THEN Derived(tn, st) ELSE Derived("u", su)] :
        sc \in {<<>>, <<"a">>}, tn \in {"t", "T"}, st \in SourcesOfT, su \in SourcesOfU}

MaxDepths == {SmallMaxDepth, DefaultMaxDepth}

ResolverInit ==
    /\ \E reg \in Registries :
          \/ tables = reg
          \/ \E sc \in SourcesOfC : tables = Put(reg, "c", Derived("c", sc))
    /\ statement_counter = 0
    /\ analysis_results = <<>>
    /\ aborted = FALSE
    /\ hung = FALSE
    /\ schema_provider = "none"
    /\ last = NoStatement
    /\ pc = "ready"
    /\ query = <<>>
    /\ stack = <<>>
    /\ all_paths = <<>>
    /\ impacted = <<>>
    /\ visited = {}
    /\ dependency = <<>>
    /\ data = <<>>
    /\ restored = <<>>

TraceToSource ==
    \E t \in Spellings \cup {"x"}, c \in ColumnNames, d \in MaxDepths : StartTrace(t, c, d)

FindImpact ==
    \E t \in Spellings \cup {"x"}, c \in ColumnNames, d \in MaxDepths : StartImpact(t, c, d)

ResolverNext ==
    \/ TraceToSource
    \/ DfsTraceEnter
    \/ DfsTraceLoop
    \/ FindImpact
    \/ DfsImpactEnter
    \/ DfsImpactLoop
    \/ Return

ResolverSpec == ResolverInit /\ [][ResolverNext]_vars

\* the resolver runs in the caller's thread: a step that can be taken is taken
FairResolverSpec == ResolverSpec /\ WF_vars(ResolverNext)

----------------------------------------------------------------------------
(* models/dependency.py: ColumnDependency, to_dict and from_dict            *)

None == "None"

\* models/column.py: ColumnRef with all its fields
FullColumnRef(database, schema, table, column, alias) ==
    [database |-> database, schema |-> schema, table |-> table, column |-> column,
     alias |-> alias]

\* ColumnRef.__eq__: database, schema, table and column; not the alias
ColumnRef_eq(x, y) ==
    /\ x.database = y.database /\ x.schema = y.schema
    /\ x.table = y.table /\ x.column = y.column

\* ExpressionType: member -> value
ExpressionTypeValue ==
    [DIRECT |-> "direct", COMPUTED |-> "computed", AGGREGATION |-> "aggregation"]

\* ExpressionType(value): the member with that value
ExpressionType(value) ==
    CHOOSE member \in DOMAIN ExpressionTypeValue : ExpressionTypeValue[member] = value

ColumnDependency(source, target, expression_type, expression, confidence, is_aggregate, aggregate_function, is_group_by) ==
    [source |-> source, target |-> target, expression_type |-> expression_type,
     expression |-> expression, confidence |-> confidence,
     is_aggregate |-> is_aggregate, aggregate_function |-> aggregate_function,
     is_group_by |-> is_group_by]

\* the == of the dataclass: field by field
ColumnDependency_eq(x, y) ==
    /\ ColumnRef_eq(x.source, y.source) /\ ColumnRef_eq(x.target, y.target)
    /\ x.expression_type = y.expression_type /\ x.expression = y.expression
    /\ x.confidence = y.confidence /\ x.is_aggregate = y.is_aggregate
    /\ x.aggregate_function = y.aggregate_function /\ x.is_group_by = y.is_group_by

\* ColumnDependency.to_dict
to_dict(self) ==
    [source |-> [database |-> self.source.database, schema |-> self.source.schema,
                 table |-> self.source.table, column |-> self.source.column,
                 alias |-> self.source.alias],
     target |-> [database |-> self.target.database, schema |-> self.target.schema,
                 table |-> self.target.table, column |-> self.target.column,
                 alias |-> self.target.alias],
     expression_type |-> ExpressionTypeValue[self.expression_type],
     expression |-> self.expression,
     confidence |-> self.confidence,
     is_aggregate |-> self.is_aggregate,
     aggregate_function |-> self.aggregate_function,
     is_group_by |-> self.is_group_by]

\* ColumnDependency.from_dict: source, target, expression_type, expression
\* and confidence are read from the dict, every other field is the default
from_dict(d) ==
    ColumnDependency(
        FullColumnRef(d.source.database, d.source.schema, d.source.table,
                      d.source.column, d.source.alias),
        FullColumnRef(d.target.database, d.target.schema, d.target.table,
                      d.target.column, d.target.alias),
        ExpressionType(d.expression_type),
        d.expression,
        d.confidence,
        FALSE, None, FALSE)

Dependencies ==
    {ColumnDependency(FullColumnRef(db, None, "s", "a", None),
                      FullColumnRef(None, None, "t", "a", al),
                      et, ex, cf, ia, af, ig) :
        db \in {None, "db"}, al \in {None, "x"},
        et \in DOMAIN ExpressionTypeValue, ex \in {None, "SUM(a)"},
        cf \in {FullConfidence, NoSchemaConfidence},
        ia \in BOOLEAN, af \in {None, "SUM"}, ig \in BOOLEAN}

DependencyInit ==
    /\ tables = EmptyMap
    /\ statement_counter = 0
    /\ analysis_results = <<>>
    /\ aborted = FALSE
    /\ hung = FALSE
    /\ schema_provider = "none"
    /\ last = NoStatement
    /\ pc = "serial"
    /\ query = <<>>
    /\ stack = <<>>
    /\ all_paths = <<>>
    /\ impacted = <<>>
    /\ visited = {}
    /\ dependency \in {<<d>> : d \in Dependencies}
    /\ data = <<>>
    /\ restored = <<>>

\* data = dependency.to_dict()
ToDict ==
    /\ pc = "serial" /\ data = <<>>
    /\ data' = <<to_dict(dependency[1])>>
    /\ UNCHANGED <<dependency, restored, pc>>
    /\ UNCHANGED scriptVars
    /\ UNCHANGED resolverVars

\* restored = ColumnDependency.from_dict(data)
FromDict ==
    /\ pc = "serial" /\ data # <<>> /\ restored = <<>>
    /\ restored' = <<from_dict(data[1])>>
    /\ UNCHANGED <<dependency, data, pc>>
    /\ UNCHANGED scriptVars
    /\ UNCHANGED resolverVars

DependencyNext == ToDict \/ FromDict

DependencySpec == DependencyInit /\ [][DependencyNext]_vars

----------------------------------------------------------------------------
(* Properties *)

CteNamesOfLast == {_normalize_table_name(k) : k \in last.cte_tables}

Finished == last.type # "" /\ ~hung

\* C1: once ScriptAnalyzer has finished a statement (its CTEs registered,
\* skipped or failed), the Registry holds no table of kind Cte
C1_NoCteAfterStatement ==
    Finished => \A n \in DOMAIN tables : tables[n].table_type # "cte"

\* the last statement raised: its error was recorded or left analyze_script
Raised == Finished /\ last.outcome \in {"failed", "escaped"}

\* C2: a statement whose analyzer raises, or whose kind is unsupported, is
\* recorded as an unsuccessful result ({success: false}) and analyze_script
\* goes on: no exception leaves it, and it has one result per statement
C2_RaisingStatementRecorded ==
    Raised =>
        /\ ~aborted
        /\ analysis_results # <<>>
        /\ Len(analysis_results) = statement_counter
        /\ ~analysis_results[Len(analysis_results)].success

\* C3: when a CREATE or INSERT fails after its CTEs were registered (in the
\* main query, in column matching, in the registration of the target), none
\* of the CTEs it registered is in the Registry any more
C3_FailedStatementRemovesCtes ==
    (Raised /\ last.step \in {"query", "match", "register"}) =>
        \A k \in CteNamesOfLast : k \notin DOMAIN tables

\* every source of every column of the tables in reg
AllSources(reg) ==
    UNION {UNION {Range(reg[n].columns[i].sources) : i \in 1..Len(reg[n].columns)} :
           n \in DOMAIN reg}

\* C4: after a successful CREATE TABLE AS or INSERT INTO ... SELECT with
\* CTEs, no column of any table left in the Registry has a source whose
\* table is one of the statement's CTEs
C4_NoSourceNamesCte ==
    (Finished /\ last.outcome = "success"
        /\ last.type \in {"CREATE_TABLE_AS", "CREATE_VIEW", "INSERT_INTO_SELECT"}) =>
        \A src \in AllSources(tables) : src.table \notin last.cte_tables

\* C5: every source of every column of a derived table names a table of the
\* Registry, or the sentinel __CONSTANT__
C5_SourcesNameRegisteredTables ==
    Finished =>
        \A n \in DOMAIN tables :
            ~tables[n].is_source_table =>
                \A i \in 1..Len(tables[n].columns) :
                    \A src \in Range(tables[n].columns[i].sources) :
                        has_table(tables, src.table) \/ src.table = ConstantSentinel

\* C6: a statement that fails leaves every table that was in the Registry
\* before it under its name
C6_FailedStatementKeepsTables ==
    [][(last'.outcome \in {"failed", "escaped"}) =>
            \A n \in DOMAIN tables : n \in DOMAIN tables']_vars

\* C7: a table registered as a source (External) table stays: a statement,
\* whatever it registers (CREATE target, CTE, FROM-subquery alias), leaves it
\* a source table under its name, and a CREATE of that name fails
C7_SourceTableNotRedefined ==
    [][\A n \in DOMAIN tables :
          tables[n].is_source_table =>
            /\ n \in DOMAIN tables'
            /\ tables'[n].is_source_table
            /\ tables'[n].table_type = "external"
            /\ tables'[n].name = tables[n].name
            /\ (last'.type \in {"CREATE_TABLE_AS", "CREATE_VIEW"}
                  /\ _normalize_table_name(last'.target) = n
                  /\ last'.outcome # "hung")
               => last'.outcome = "escaped"]_vars

\* a CREATE over a source table was refused by register_table
C7_Witness ==
    /\ last.type = "CREATE_TABLE_AS" /\ last.step = "register"
    /\ last.outcome = "escaped"
    /\ has_table(tables, last.target)
    /\ get_table(tables, last.target).is_source_table

\* C8: for every column of every derived table of a Registry produced by
\* script analysis, trace_to_source returns at least one path
C8_EveryColumnTraces ==
    Finished =>
        \A n \in DOMAIN tables :
            ~tables[n].is_source_table =>
                \A i \in 1..Len(tables[n].columns) :
                    trace_to_source(tables, tables[n].name,
                        tables[n].columns[i].name, DefaultMaxDepth) # <<>>

\* a column as a node of the lineage graph: the table a name stands for
Node(t, c) == <<_normalize_table_name(t), c>>

\* the columns with a source in the set of nodes S
DirectDependents(reg, S) ==
    {x \in UNION {{<<n, reg[n].columns[i].name>> : i \in 1..Len(reg[n].columns)} :
                    n \in DOMAIN reg} :
        \E src \in Range(get_column(reg[x[1]], x[2]).sources) :
            Node(src.table, src.column) \in S}

\* the columns from which one or more sources edges lead into S
RECURSIVE Dependents(_, _, _)
Dependents(reg, S, found) ==
    LET more(D) == IF D \subseteq found THEN found
                   ELSE Dependents(reg, D \cup found, D \cup found)
    IN  more(DirectDependents(reg, S))

\* C9: find_impact(T, c) misses no column from which sources edges lead to
\* T.c (max_depth being larger than any chain of the Registry)
C9_ImpactMissesNoColumn ==
    (pc = "done" /\ query.kind = "impact" /\ query.max_depth = DefaultMaxDepth) =>
        \A x \in Dependents(tables, {Node(query.table, query.column)}, {}) :
            \E i \in 1..Len(impacted) : Node(impacted[i].table, impacted[i].column) = x

\* C10: trace_to_source and find_impact, once called, return
C10_ResolverTerminates ==
    (pc \in {"trace", "impact"}) ~> (pc = "done")

\* t.a and u.a are each other's source
Cyclic ==
    /\ {"t", "u"} \subseteq DOMAIN tables
    /\ ColumnRef("u", "a") \in Range(tables["t"].columns[1].sources)
    /\ ColumnRef(tables["t"].name, "a") \in Range(tables["u"].columns[1].sources)

\* a trace on a cyclic Registry returned
C10_Witness ==
    pc = "done" /\ Cyclic /\ query.kind = "trace" /\ query.table = "t"
        /\ query.max_depth = DefaultMaxDepth

\* C11: statements are taken in order and the statement counter is
\* incremented once per statement: after statement i (0-based) it is i + 1,
\* whether the statement succeeded, failed or was unsupported
C11_CounterFollowsStatements ==
    Finished => statement_counter = last.statement_index + 1

\* INSERT INTO t SELECT a FROM f
InsertFrom(f) ==
    Statement("INSERT_INTO_SELECT", "t", <<>>, Select(TableItem(f), <<"a">>, "none"), <<>>)

\* C12: every INSERT INTO t SELECT a FROM f that succeeds adds the one
\* ColumnRef f.a after the sources the column has (none if it is there
\* already), and leaves its confidence strictly below 1.0, at
\* min(confidence, 0.9 * the confidence of the new lineage): after CREATE TABLE t AS SELECT a FROM s and
\* two INSERTs from u and c the sources are s.a, u.a, c.a in this order
C12_InsertMergesSources ==
    [][\A f \in {"s", "u", "c"} :
          (Analyze(InsertFrom(f)) /\ last'.outcome = "success") =>
            /\ Len(tables'["t"].columns) = 1
            /\ tables'["t"].columns[1].sources =
                 add_source(tables["t"].columns[1].sources,
                            ColumnRef(f, "a"))
            /\ tables'["t"].columns[1].confidence < FullConfidence
            /\ tables'["t"].columns[1].confidence =
                 merged_confidence(tables["t"].columns[1].confidence,
                            dependency_confidence(schema_provider, f, <<"a">>, "a"))]_vars

\* the table after CREATE TABLE t AS SELECT a FROM s; INSERT INTO t SELECT a
\* FROM u; INSERT INTO t SELECT a FROM c, analyzed without a schema provider
C12_Witness ==
    /\ last.type = "INSERT_INTO_SELECT" /\ last.outcome = "success"
    /\ statement_counter = 3
    /\ schema_provider = "none"
    /\ "t" \in DOMAIN tables
    /\ tables["t"].columns =
         <<[ColumnLineage("a", <<ColumnRef("s", "a"), ColumnRef("u", "a"),
                                 ColumnRef("c", "a")>>)
              EXCEPT !.confidence = (NoSchemaConfidence * 9) \div 10]>>

\* C13: INSERT INTO t ... SELECT with t not in the Registry fails with the
\* target-missing error and leaves the Registry as it was: no source table,
\* CTE or column is added
C13_InsertIntoMissingTarget ==
    [][(last'.type = "INSERT_INTO_SELECT" /\ ~has_table(tables, last'.target)) =>
            /\ last'.outcome = "failed"
            /\ last'.step = "target"
            /\ tables' = tables]_vars

\* an INSERT was refused for its missing target
C13_Witness ==
    /\ last.type = "INSERT_INTO_SELECT" /\ last.step = "target"
    /\ last.outcome = "failed"
    /\ ~has_table(tables, last.target)
    /\ ~analysis_results[Len(analysis_results)].success

Inserts == {stmt \in Statements : stmt.type = "INSERT_INTO_SELECT"}

\* the rule of INSERT column matching, on the target as it is before the
\* statement and the columns the SELECT projects
Matches(table_def, stmt) ==
    IF stmt.columns # <<>>
    THEN /\ Len(stmt.columns) = Len(stmt.query.proj)
         /\ \A i \in 1..Len(stmt.columns) : has_column(table_def, stmt.columns[i])
    ELSE Len(stmt.query.proj) = Len(table_def.columns)

\* C14: an INSERT whose SELECT was analyzed succeeds only if its columns
\* match the target (explicit list: as many as projected, each a column of
\* the target; no list: as many projected as the target has); if they do
\* not, the statement fails and the target's column lineage is unchanged
C14_InsertColumnMatching ==
    [][\A stmt \in Inserts :
          (last'.type = "INSERT_INTO_SELECT" /\ Analyze(stmt)
              /\ last'.step \notin {"target", "query"} /\ last'.outcome # "hung") =>
            /\ last'.outcome = "success" => Matches(get_table(tables, stmt.target), stmt)
            /\ ~Matches(get_table(tables, stmt.target), stmt) =>
                 /\ last'.outcome = "failed"
                 /\ get_table(tables', stmt.target).columns
                      = get_table(tables, stmt.target).columns]_vars


\* C15: an INSERT with an explicit column list that succeeds leaves every
\* column of the target that the list does not name as it was: the target
\* still has the column, with the same sources, confidence and flags
C15_UnlistedColumnsUntouched ==
    [][\A stmt \in Inserts :
          (Analyze(stmt) /\ stmt.columns # <<>> /\ last'.outcome = "success") =>
            /\ has_table(tables', stmt.target)
            /\ \A i \in 1..Len(get_table(tables, stmt.target).columns) :
                  LET col == get_table(tables, stmt.target).columns[i] IN
                  (\A j \in 1..Len(stmt.columns) : stmt.columns[j] # col.name) =>
                    /\ has_column(get_table(tables', stmt.target), col.name)
                    /\ get_column(get_table(tables', stmt.target), col.name) = col]_vars


\* C16: a column projected from constants only is stored with no sources:
\* no source kept in the Registry names the placeholder table __CONSTANT__
C16_ConstantSentinelNotStored ==
    \A r \in AllSources(tables) : r.table # ConstantSentinel


\* C17: a CREATE or INSERT that succeeds with one recursive CTE (whose
\* recursive branch is analyzed) leaves the target with, in every column read
\* from an anchor column, the anchor's source, and with no source whose table
\* is the CTE
WithRecursiveCte ==
    {stmt \in Statements :
        /\ stmt.type \in {"CREATE_TABLE_AS", "INSERT_INTO_SELECT"}
        /\ Len(stmt.ctes) = 1
        /\ stmt.ctes[1].is_recursive /\ ~stmt.ctes[1].rec_fails
        /\ stmt.columns = <<>>}

C17_RecursiveCteResolvedToAnchor ==
    [][\A stmt \in WithRecursiveCte :
          (Analyze(stmt) /\ last'.outcome = "success") =>
            LET cte == stmt.ctes[1]
                columns == get_table(tables', stmt.target).columns
            IN  /\ Len(columns) = Len(stmt.query.proj)
                /\ \A i \in 1..Len(columns) :
                      /\ (\E j \in 1..Len(cte.proj) : cte.proj[j] = stmt.query.proj[i]) =>
                            ColumnRef(cte.from, stmt.query.proj[i]) \in Range(columns[i].sources)
                      /\ \A r \in Range(columns[i].sources) : r.table # cte.name]_vars


\* C18: after an INSERT has merged a new lineage into a column of its target,
\* each aggregation flag of the column is the logical OR of its value before
\* and the value of the merged lineage
PlainInserts ==
    {stmt \in Inserts : stmt.ctes = <<>> /\ stmt.columns = <<>>
                          /\ Len(stmt.query.proj) = 1 /\ stmt.query.from.kind = "table"}

C18_MergedFlagsAreOr ==
    [][\A stmt \in PlainInserts :
          (Analyze(stmt) /\ last'.outcome = "success") =>
            LET self == tables["t"].columns[1]
                other == _convert_dependencies_to_lineages(
                             extract(schema_provider, stmt.query.from.name, stmt.query.proj),
                             FALSE)[1]
                merged == tables'["t"].columns[1]
            IN  /\ merged.is_aggregate = (self.is_aggregate \/ other.is_aggregate)
                /\ merged.is_group_by = (self.is_group_by \/ other.is_group_by)]_vars


\* C19: in every column kept in the Registry, no two sources have the same
\* qualified name
C19_NoDuplicateSources ==
    \A n \in DOMAIN tables : \A i \in 1..Len(tables[n].columns) :
        \A j, k \in 1..Len(tables[n].columns[i].sources) :
            tables[n].columns[i].sources[j] = tables[n].columns[i].sources[k] => j = k


\* C20: with the ambiguity policy Fail, a statement that projects an
\* unqualified column which the resolver finds ambiguous between the tables
\* of a join fails: an unsuccessful result is recorded for it and its target
\* is neither created nor changed
ProjectsAmbiguousColumn(stmt) ==
    /\ stmt.type \in {"CREATE_TABLE_AS", "INSERT_INTO_SELECT"}
    /\ stmt.query.from.kind = "join"
    /\ \E i \in 1..Len(stmt.query.proj) :
          is_ambiguous(schema_provider, stmt.query.from,
                       _get_target_column_name(stmt.query.proj[i]))

C20_AmbiguousColumnFails ==
    [][\A stmt \in Statements :
          (Analyze(stmt) /\ ProjectsAmbiguousColumn(stmt)
              /\ (stmt.type = "INSERT_INTO_SELECT" => has_table(tables, stmt.target))) =>
            /\ last'.outcome = "failed"
            /\ Len(analysis_results') = Len(analysis_results) + 1
            /\ ~analysis_results'[Len(analysis_results')].success
            /\ has_table(tables', stmt.target) = has_table(tables, stmt.target)
            /\ has_table(tables, stmt.target) =>
                  get_table(tables', stmt.target) = get_table(tables, stmt.target)]_vars

\* C21: an INSERT whose body is a SELECT or a UNION is classified
\* INSERT_INTO_SELECT and handed to the INSERT analyzer; only an INSERT whose
\* body is neither is classified UNSUPPORTED
C21_InsertBodyClassified ==
    [][\A ast \in InsertAsts :
          Analyze(classify(ast)) =>
            /\ ast.expression \in {"Select", "Union"} => last'.type = "INSERT_INTO_SELECT"
            /\ ast.expression \notin {"Select", "Union"} => last'.type = "UNSUPPORTED"]_vars

\* the call about to be made is the first on a new ScriptAnalyzer, or the
\* second, with the script of the first
FirstOrRepeated(script) ==
    last.type = "" \/ (last.call = 1 /\ last.script = script)

\* C22: analyzing a script with a new ScriptAnalyzer, or a second time with
\* the ScriptAnalyzer that analyzed it before, gives the Registry that a new
\* ScriptAnalyzer produces for the script: the same tables, kinds, columns,
\* sources, confidences and statement counter
C22_SameScriptSameRegistry ==
    [][\A script \in Scripts :
          (FirstOrRepeated(script) /\ AnalyzeScript(script)) =>
            /\ tables' = fresh_analyze_script(schema_provider, script).tables
            /\ statement_counter' =
                 fresh_analyze_script(schema_provider, script).statement_counter]_vars

\* C23: for every ColumnDependency d, with or without is_aggregate,
\* aggregate_function or is_group_by set, from_dict(d.to_dict()) equals d
C23_DependencyRoundTrip ==
    restored # <<>> => ColumnDependency_eq(restored[1], dependency[1])

\* the spellings of table names: as in the scripts, and with blanks around
Variants == Spellings \cup {" t ", " T "}

\* a spelling with its blanks trimmed and in lower case
Folded(x) == IF x \in {"T", " t ", " T "} THEN "t" ELSE x

\* C24: spellings that differ only in case or surrounding whitespace address
\* the same single entry with has_table, get_table and remove_table, and no
\* two keys of the Registry differ only in case or surrounding whitespace
C24_LookupIgnoresCaseAndBlanks ==
    /\ \A k1, k2 \in DOMAIN tables : Folded(k1) = Folded(k2) => k1 = k2
    /\ \A x, y \in Variants :
          Folded(x) = Folded(y) =>
            /\ has_table(tables, x) = has_table(tables, y)
            /\ has_table(tables, x) => get_table(tables, x) = get_table(tables, y)
            /\ remove_table(tables, x) = remove_table(tables, y)
            /\ has_table(tables, x) =>
                  DOMAIN remove_table(tables, x) = (DOMAIN tables) \ {Folded(x)}

\* a table registered as T was found by INSERT INTO t, which merged into it
C24_Witness ==
    /\ DOMAIN tables = {"s", "t", "u"}
    /\ tables["t"].name = "T"
    /\ last.type = "INSERT_INTO_SELECT" /\ last.call = 1
    /\ Len(tables["t"].columns[1].sources) = 2
    /\ get_table(tables, " T ") = tables["t"]

\* C25: the CTE-expansion loop that runs before the CTEs are removed returns
\* for every statement, also when the sources of a CTE column name a CTE of
\* the same statement: no statement's analysis stays in the loop
C25_ExpansionTerminates == ~hung

\* the sources of column i of table m that name the table n
SourcesNaming(reg, m, i, n) ==
    {src \in Range(reg[m].columns[i].sources) : _normalize_table_name(src.table) = n}

\* C26: a statement with a CTE whose normalized name is that of a non-source
\* table created earlier (and which is not the statement's own target), once
\* it has completed, leaves that table in the Registry as it was, and every
\* source of a column of another table that named it is still there
C26_CteLeavesEarlierTable ==
    [][\A stmt \in Statements : \A k \in 1..Len(stmt.ctes) :
          LET n == _normalize_table_name(stmt.ctes[k].name) IN
          (/\ Analyze(stmt)
           /\ n \in DOMAIN tables
           /\ ~tables[n].is_source_table
           /\ _normalize_table_name(stmt.target) # n
           /\ last'.outcome # "hung") =>
            (/\ n \in DOMAIN tables'
             /\ tables'[n] = tables[n]
             /\ \A m \in (DOMAIN tables) \ {n, _normalize_table_name(stmt.target)} :
                   (/\ m \in DOMAIN tables'
                    /\ Len(tables'[m].columns) = Len(tables[m].columns)
                    /\ \A i \in 1..Len(tables[m].columns) :
                          SourcesNaming(tables, m, i, n)
                              \subseteq SourcesNaming(tables', m, i, n)))]_vars

\* the names a statement defines: its CTEs, the alias of its FROM subquery,
\* the target of a CREATE
DefinedBy(stmt) ==
    {_normalize_table_name(stmt.ctes[k].name) : k \in 1..Len(stmt.ctes)}
    \cup (IF stmt.type \in {"CREATE_TABLE_AS", "CREATE_VIEW", "INSERT_INTO_SELECT"}
             /\ stmt.query.from.kind = "subquery"
          THEN {_normalize_table_name(stmt.query.from.name)} ELSE {})
    \cup (IF stmt.type \in {"CREATE_TABLE_AS", "CREATE_VIEW"}
          THEN {_normalize_table_name(stmt.target)} ELSE {})

\* C27: a name that a statement of the script defines (as a CTE, as the alias
\* of a FROM subquery, as the target of a CREATE) is not the name of a source
\* (External) table of the Registry once that statement has been analyzed
C27_DefinedNameNotExternal ==
    [][\A stmt \in Statements :
          (Analyze(stmt) /\ last'.outcome # "hung") =>
            \A n \in DefinedBy(stmt) :
                ~(n \in DOMAIN tables' /\ tables'[n].is_source_table)]_vars

\* C28: a statement whose FROM clause is a subquery with alias a, once it has
\* completed, leaves a table that an earlier statement registered under the
\* name a (and that is not the statement's own target) as it was
C28_SubqueryAliasLeavesTable ==
    [][\A stmt \in Statements :
          LET n == _normalize_table_name(stmt.query.from.name) IN
          (/\ Analyze(stmt)
           /\ stmt.type \in {"CREATE_TABLE_AS", "CREATE_VIEW", "INSERT_INTO_SELECT"}
           /\ stmt.query.from.kind = "subquery"
           /\ (stmt.type = "INSERT_INTO_SELECT" => has_table(tables, stmt.target))
           /\ n \in DOMAIN tables
           /\ _normalize_table_name(stmt.target) # n
           /\ last'.outcome # "hung") =>
            (n \in DOMAIN tables' /\ tables'[n] = tables[n])]_vars

\* C29: find_impact returns each impacted column at most once, also when a
\* column is reached from the queried column along several paths
C29_ImpactedOnce ==
    (pc = "done" /\ query.kind = "impact") =>
        \A i, j \in 1..Len(impacted) : impacted[i] = impacted[j] => i = j

\* a path as trace_to_source(T, c) returns them: it starts at T.c, each
\* further node is one of the sources of the node before it, no node occurs
\* twice, it ends at a column of a source table or at a column without
\* sources, and it has one hop per node after the first
WellFormed(nodes) ==
    /\ nodes # <<>>
    /\ nodes[1] = ColumnRef(query.table, query.column)
    /\ \A i \in 2..Len(nodes) :
          /\ has_table(tables, nodes[i - 1].table)
          /\ has_column(get_table(tables, nodes[i - 1].table), nodes[i - 1].column)
          /\ nodes[i] \in Range(get_column(get_table(tables, nodes[i - 1].table),
                                           nodes[i - 1].column).sources)
    /\ \A i, j \in 1..Len(nodes) : nodes[i] = nodes[j] => i = j
    /\ has_table(tables, nodes[Len(nodes)].table)
    /\ has_column(get_table(tables, nodes[Len(nodes)].table), nodes[Len(nodes)].column)
    /\ \/ get_table(tables, nodes[Len(nodes)].table).is_source_table
       \/ get_column(get_table(tables, nodes[Len(nodes)].table),
                     nodes[Len(nodes)].column).sources = <<>>
    /\ hops(nodes) = Len(nodes) - 1

====
